---- MODULE Spec2Model ----
(***************************************************************************)
(* Model of play.py: a TEI play is parsed into speeches, every speech is   *)
(* scored by a sentiment library, and the score is shown as one pixel of   *)
(* a Unicorn HAT (or printed as a symbol).                                 *)
(*                                                                         *)
(* Texts are sequences of one-character strings.  A float that the script  *)
(* computes is kept as an exact fraction <<numerator, denominator>> with a *)
(* positive denominator.  Every call the script makes to the outside world *)
(* (unicornhat, time.sleep, print, the sentiment libraries) is appended to *)
(* `events`, tagged with the index of the speech being processed.          *)
(***************************************************************************)
EXTENDS Integers, Sequences, FiniteSets

VARIABLES
    pc,         \* position of the script: idle, loading, extract, loop,
                \* analyzing, mapping, displaying, verbose, done, failed
    nlp,        \* play(nlp=...)
    unicorns,   \* not no_unicorns
    verbose,    \* play(verbose=...)
    uh,         \* "module" when `import unicornhat` worked, "missing" otherwise
    sps,        \* number of selected <sp> elements still to be read
    lines,      \* the list built by _get_lines_from_xml
    idx,        \* enumerate() index of the for loop of play
    polarity,   \* locals of _process_text
    intensity,
    rgb,
    speed,
    xy,
    events,     \* every external call made so far, in order
    failure,    \* what raised: none, hardware, load, analysis
    call,       \* the function under test and its arguments (function harness)
    ret         \* its result

vars == <<pc, nlp, unicorns, verbose, uh, sps, lines, idx, polarity, intensity,
          rgb, speed, xy, events, failure, call, ret>>

runVars == <<pc, nlp, unicorns, verbose, uh, sps, lines, idx, polarity,
             intensity, rgb, speed, xy, events, failure>>

-----------------------------------------------------------------------------
(* Program constants *)

LIGHT == 255

UH_LED_COUNT == 64

\* int(math.sqrt(UH_LED_COUNT))
RECURSIVE ISqrtFrom(_, _)
ISqrtFrom(n, r) == IF (r + 1) * (r + 1) > n THEN r ELSE ISqrtFrom(n, r + 1)

UH_LED_LINE_COUNT == ISqrtFrom(UH_LED_COUNT, 0)

WORDS_PER_MINUTE == 120

-----------------------------------------------------------------------------
(* Bounds of the model *)

\* <sp> elements in a document
MaxSps == 2

\* text nodes below one <sp>
MaxNodes == 2

\* denominators of the polarities given to the colour function
MaxDen == 6

\* characters of the texts given to _get_speed
MaxTextLen == 5

\* speech indices given to _process_text in the function harness
MaxIdx == 135

-----------------------------------------------------------------------------
(* Strings *)

Whitespace == {" ", "\n"}

IsSpace(c) == c \in Whitespace

RECURSIVE LStrip(_)
LStrip(s) == IF s = <<>> \/ ~IsSpace(Head(s)) THEN s ELSE LStrip(Tail(s))

RECURSIVE RStrip(_)
RStrip(s) ==
    IF s = <<>> \/ ~IsSpace(s[Len(s)]) THEN s ELSE RStrip(SubSeq(s, 1, Len(s) - 1))

\* str.strip()
Strip(s) == RStrip(LStrip(s))

\* sep.join(parts)
RECURSIVE Join(_, _)
Join(sep, parts) ==
    IF parts = <<>> THEN <<>>
    ELSE IF Len(parts) = 1 THEN parts[1]
    ELSE parts[1] \o sep \o Join(sep, Tail(parts))

\* str.split(): the maximal runs of non-whitespace characters, in order
RECURSIVE SplitFrom(_, _, _)
SplitFrom(s, word, words) ==
    IF s = <<>>
    THEN IF word = <<>> THEN words ELSE Append(words, word)
    ELSE IF IsSpace(Head(s))
         THEN SplitFrom(Tail(s), <<>>,
                        IF word = <<>> THEN words ELSE Append(words, word))
         ELSE SplitFrom(Tail(s), Append(word, Head(s)), words)

Split(s) == SplitFrom(s, <<>>, <<>>)

-----------------------------------------------------------------------------
(* Fractions *)

Abs(n) == IF n < 0 THEN -n ELSE n

\* math.ceil of the fraction num/den, num >= 0, den > 0
Ceil(num, den) == (num + den - 1) \div den

RECURSIVE Gcd(_, _)
Gcd(a, b) == IF b = 0 THEN a ELSE Gcd(b, a % b)

\* the scores a sentiment library can return: fractions of [-1, 1] in lowest
\* terms with a denominator of at most maxden
Scores(maxden) ==
    {p \in (-maxden..maxden) \X (1..maxden) :
        Abs(p[1]) <= p[2] /\ Gcd(Abs(p[1]), p[2]) = 1}

-----------------------------------------------------------------------------
(* The functions of play.py *)

\* the library _get_sentiment calls for this value of nlp
_get_sentiment(n) == IF n = "pattern" THEN "sentiment" ELSE "polarity_scores"

\* the intensity truncated instead of rounded up
IntensityTruncated(p) == (Abs(p[1]) * LIGHT) \div p[2]

\* int(math.ceil(abs(polarity) * LIGHT))
Intensity(p) == Ceil(Abs(p[1]) * LIGHT, p[2])

_get_colour(p, i) ==
    IF p[1] = 0 THEN <<0, 0, 0>>
    ELSE IF p[1] > 0 THEN <<LIGHT - i, 0, LIGHT>>
    ELSE <<LIGHT, 0, LIGHT - i>>

\* the delay taken from the characters of the text instead of its words
_get_speed_of_chars(text) == <<Len(text), WORDS_PER_MINUTE>>

\* float(count) / WORDS_PER_MINUTE
_get_speed(text) == <<Len(Split(text)), WORDS_PER_MINUTE>>

GridX(i) == (i % UH_LED_COUNT) % UH_LED_LINE_COUNT

\* the row taken from the index itself instead of the index modulo 64
GridYUnwrapped(i) == i \div UH_LED_LINE_COUNT

\* Python 2: / on two ints is floor division
GridY(i) == (i % UH_LED_COUNT) \div UH_LED_LINE_COUNT

\* the sleep taken before the pixel is set and flushed
_show_pixel_sleep_first(i, x, y, r, g, b, s) ==
    << [op |-> "sleep", idx |-> i, secs |-> s],
       [op |-> "set_pixel", idx |-> i, x |-> x, y |-> y, r |-> r, g |-> g, b |-> b],
       [op |-> "show", idx |-> i] >>

_show_pixel(i, x, y, r, g, b, s) ==
    << [op |-> "set_pixel", idx |-> i, x |-> x, y |-> y, r |-> r, g |-> g, b |-> b],
       [op |-> "show", idx |-> i],
       [op |-> "sleep", idx |-> i, secs |-> s] >>

\* the line break one column late
_print_pixel_late(i, x, p, s) ==
    LET symbol == IF p[1] > 0 THEN "+" ELSE IF p[1] < 0 THEN "-" ELSE "."
    IN  << [op |-> "print", idx |-> i, symbol |-> symbol] >>
        \o (IF x = UH_LED_LINE_COUNT
            THEN << [op |-> "newline", idx |-> i] >> ELSE <<>>)

_print_pixel(i, x, p, s) ==
    LET symbol == IF p[1] > 0 THEN "+" ELSE IF p[1] < 0 THEN "-" ELSE "."
    IN  << [op |-> "print", idx |-> i, symbol |-> symbol] >>
        \o (IF x = UH_LED_LINE_COUNT - 1
            THEN << [op |-> "newline", idx |-> i] >> ELSE <<>>)

\* the symbol printed in both modes: the else of line 66 lost
DisplayNoElse(i, u, p, c, s, pos) ==
    (IF u THEN _show_pixel(i, pos[1], pos[2], c[1], c[2], c[3], s) ELSE <<>>)
    \o _print_pixel(i, pos[1], p, s)

\* lines 64-67 of _process_text
Display(i, u, p, c, s, pos) ==
    IF u THEN _show_pixel(i, pos[1], pos[2], c[1], c[2], c[3], s)
    ELSE _print_pixel(i, pos[1], p, s)

\* lines 69-70 of _process_text
Trace(i, v, text, p, n, s) ==
    IF v THEN << [op |-> "verbose", idx |-> i, text |-> text, polarity |-> p,
                  intensity |-> n, speed |-> s] >>
    ELSE <<>>

\* _process_text once the library has answered p: its locals, and the calls
\* it makes at lines 64-67 (shown) and at lines 69-70 (traced)
_process_text(i, text, p, u, v) ==
    LET n   == Intensity(p)
        c   == _get_colour(p, n)
        s   == _get_speed(text)
        pos == <<GridX(i), GridY(i)>>
    IN  [intensity |-> n, rgb |-> c, speed |-> s, xy |-> pos,
         shown |-> Display(i, u, p, c, s, pos),
         traced |-> Trace(i, v, text, p, n, s)]

\* the text of one <sp>: lines 80-82 of _get_lines_from_xml
SpText(nodes) == Join(<<" ">>, [k \in 1..Len(nodes) |-> Strip(nodes[k])])

AddLine(ls, nodes) ==
    LET text == SpText(nodes)
    IN  IF text # <<>> THEN Append(ls, Strip(text)) ELSE ls

-----------------------------------------------------------------------------
(* Inputs *)

\* the values of --nlp: the two documented ones and another one
NlpValues == {"nltk", "pattern", "spacy"}

\* text nodes of the document
NodeTexts == { <<" ">>, <<"\n", " ">>, <<"a">>, <<" ", "a", "\n">> }

SeqsUpTo(S, n) == UNION {[1..k -> S] : k \in 0..n}

NodeLists == SeqsUpTo(NodeTexts, MaxNodes)

\* what the sentiment library answers in a run
RunScores == { <<-1, 5>>, <<0, 1>>, <<1, 2>> }

None == <<>>

Chars == {"a"} \cup Whitespace

\* the texts given to _get_speed
Texts == SeqsUpTo(Chars, MaxTextLen)

\* the texts _get_lines_from_xml can put into lines
LoadedTexts == {Strip(SpText(nodes)) : nodes \in NodeLists}

-----------------------------------------------------------------------------
(* The run of play() *)

Init ==
    /\ pc = "idle"
    /\ nlp \in NlpValues
    /\ unicorns \in BOOLEAN
    /\ verbose \in BOOLEAN
    /\ uh \in {"module", "missing"}
    /\ sps = 0
    /\ lines = <<>>
    /\ idx = 0
    /\ polarity = None
    /\ intensity = None
    /\ rgb = None
    /\ speed = None
    /\ xy = None
    /\ events = <<>>
    /\ failure = "none"
    /\ call = [fn |-> "none"]
    /\ ret = None

\* the exception caught and the loop resumed
RaiseCaught(what) ==
    /\ pc' = "loop"
    /\ failure' = what

Raise(what) ==
    /\ pc' = "failed"
    /\ failure' = what

\* lines 44-47: uh.brightness(brightness), a NameError when the import failed
Start ==
    /\ pc = "idle"
    /\ IF unicorns /\ uh = "missing"
       THEN Raise("hardware") /\ UNCHANGED events
       ELSE /\ pc' = "loading"
            /\ events' = IF unicorns THEN <<[op |-> "brightness"]>> ELSE events
            /\ UNCHANGED failure
    /\ UNCHANGED <<nlp, unicorns, verbose, uh, sps, lines, idx, polarity,
                   intensity, rgb, speed, xy, call, ret>>

\* lines 74-75: etree.parse raises, or the xpath selects the <sp> elements
\* that have a <speaker> child
Parse ==
    /\ pc = "loading"
    /\ \/ Raise("load") /\ UNCHANGED sps
       \/ \E doc \in SeqsUpTo(BOOLEAN, MaxSps) :
            /\ sps' = Len(SelectSeq(doc, LAMBDA speaker : speaker))
            /\ pc' = "extract"
            /\ UNCHANGED failure
    /\ UNCHANGED <<nlp, unicorns, verbose, uh, lines, idx, polarity, intensity,
                   rgb, speed, xy, events, call, ret>>

\* lines 79-82: one iteration of the loop over sps
LoadSp ==
    /\ pc = "extract"
    /\ sps > 0
    /\ \E nodes \in NodeLists : lines' = AddLine(lines, nodes)
    /\ sps' = sps - 1
    /\ UNCHANGED <<pc, nlp, unicorns, verbose, uh, idx, polarity, intensity,
                   rgb, speed, xy, events, failure, call, ret>>

\* line 84 and line 49
LoadReturn ==
    /\ pc = "extract"
    /\ sps = 0
    /\ pc' = "loop"
    /\ idx' = 0
    /\ UNCHANGED <<nlp, unicorns, verbose, uh, sps, lines, polarity, intensity,
                   rgb, speed, xy, events, failure, call, ret>>

\* the loop ending one line early
NextLineShort ==
    /\ pc = "loop"
    /\ pc' = IF idx + 1 < Len(lines) THEN "analyzing" ELSE "done"
    /\ UNCHANGED <<nlp, unicorns, verbose, uh, sps, lines, idx, polarity,
                   intensity, rgb, speed, xy, events, failure, call, ret>>

\* line 51: the for loop takes the next line, or ends
NextLine ==
    /\ pc = "loop"
    /\ pc' = IF idx < Len(lines) THEN "analyzing" ELSE "done"
    /\ UNCHANGED <<nlp, unicorns, verbose, uh, sps, lines, idx, polarity,
                   intensity, rgb, speed, xy, events, failure, call, ret>>

\* line 56: the library is called; it answers a score or raises
Analyze ==
    /\ pc = "analyzing"
    /\ events' = Append(events, [op |-> _get_sentiment(nlp), idx |-> idx])
    /\ \/ Raise("analysis") /\ UNCHANGED polarity
       \/ \E p \in RunScores :
            /\ polarity' = p
            /\ pc' = "mapping"
            /\ UNCHANGED failure
    /\ UNCHANGED <<nlp, unicorns, verbose, uh, sps, lines, idx, intensity, rgb,
                   speed, xy, call, ret>>

\* lines 57-62
Map ==
    /\ pc = "mapping"
    /\ LET f == _process_text(idx, lines[idx + 1], polarity, unicorns, verbose)
       IN  /\ intensity' = f.intensity
           /\ rgb' = f.rgb
           /\ speed' = f.speed
           /\ xy' = f.xy
    /\ pc' = "displaying"
    /\ UNCHANGED <<nlp, unicorns, verbose, uh, sps, lines, idx, polarity,
                   events, failure, call, ret>>

\* lines 64-67
Show ==
    /\ pc = "displaying"
    /\ events' = events \o Display(idx, unicorns, polarity, rgb, speed, xy)
    /\ pc' = "verbose"
    /\ UNCHANGED <<nlp, unicorns, verbose, uh, sps, lines, idx, polarity,
                   intensity, rgb, speed, xy, failure, call, ret>>

\* lines 69-70, and the return to the loop
Report ==
    /\ pc = "verbose"
    /\ events' = events \o Trace(idx, verbose, lines[idx + 1], polarity,
                                 intensity, speed)
    /\ idx' = idx + 1
    /\ polarity' = None
    /\ intensity' = None
    /\ rgb' = None
    /\ speed' = None
    /\ xy' = None
    /\ pc' = "loop"
    /\ UNCHANGED <<nlp, unicorns, verbose, uh, sps, lines, failure, call, ret>>

Next ==
    \/ Start
    \/ Parse
    \/ LoadSp
    \/ LoadReturn
    \/ NextLine
    \/ Analyze
    \/ Map
    \/ Show
    \/ Report

Spec == Init /\ [][Next]_vars

\* the script is one sequential process: it keeps running until it ends
FairSpec == Spec /\ WF_vars(Next)

-----------------------------------------------------------------------------
(* The functions on their own: one function is applied once to an argument  *)
(* drawn from its domain, and the call and its result are kept.             *)

InitFn ==
    /\ pc = "idle"
    /\ nlp = "nltk"
    /\ unicorns = FALSE
    /\ verbose = FALSE
    /\ uh = "missing"
    /\ sps = 0
    /\ lines = <<>>
    /\ idx = 0
    /\ polarity = None
    /\ intensity = None
    /\ rgb = None
    /\ speed = None
    /\ xy = None
    /\ events = <<>>
    /\ failure = "none"
    /\ call = [fn |-> "none"]
    /\ ret = None

\* lines 57-58
CallColour ==
    /\ call.fn = "none"
    /\ \E p \in Scores(MaxDen) :
         /\ call' = [fn |-> "_get_colour", polarity |-> p]
         /\ ret' = [intensity |-> Intensity(p),
                    rgb |-> _get_colour(p, Intensity(p))]
    /\ UNCHANGED runVars

CallSpeed ==
    /\ call.fn = "none"
    /\ \E t \in Texts :
         /\ call' = [fn |-> "_get_speed", text |-> t]
         /\ ret' = _get_speed(t)
    /\ UNCHANGED runVars

CallProcessText ==
    /\ call.fn = "none"
    /\ \E i \in 0..MaxIdx, t \in LoadedTexts, p \in RunScores, u, v \in BOOLEAN :
         /\ call' = [fn |-> "_process_text", idx |-> i, text |-> t,
                     polarity |-> p, unicorns |-> u, verbose |-> v]
         /\ ret' = _process_text(i, t, p, u, v)
    /\ UNCHANGED runVars

NextFn ==
    \/ CallColour
    \/ CallSpeed
    \/ CallProcessText

SpecFn == InitFn /\ [][NextFn]_vars

-----------------------------------------------------------------------------
(* Properties of a run (checked under Spec, and under FairSpec for C8) *)

\* the words of a text: the places where a non-whitespace character starts
\* the text or follows a whitespace character
WordCount(t) ==
    Cardinality({k \in 1..Len(t) : ~IsSpace(t[k]) /\ (k = 1 \/ IsSpace(t[k - 1]))})

\* the events of es whose call is one of ops, in order
Ops(es, ops) == SelectSeq(es, LAMBDA e : e.op \in ops)

HardwareOps == {"set_pixel", "show", "sleep"}

TextOps == {"print", "newline"}

LibraryOps == {"polarity_scores", "sentiment"}

\* one event per displayed speech
Shown == Ops(events, {"set_pixel", "print"})

\* C4: no text of lines is empty.
C4_NoEmptyLine == \A k \in 1..Len(lines) : lines[k] # <<>>

\* C5: with the hardware, the calls for the speeches come as one triple per
\* speech, in the order of the speeches: set_pixel at the speech's (x, y) with
\* its colour, then show, then sleep for the speech's delay.
C5_HardwareOrder ==
    unicorns =>
        LET h == Ops(events, HardwareOps)
        IN  /\ Len(h) % 3 = 0
            /\ \A k \in 1..(Len(h) \div 3) :
                 LET set   == h[3 * k - 2]
                     flush == h[3 * k - 1]
                     wait  == h[3 * k]
                 IN  /\ set.op = "set_pixel" /\ set.idx = k - 1
                     /\ set.x = ((k - 1) % 64) % 8
                     /\ set.y * 8 <= (k - 1) % 64
                     /\ (k - 1) % 64 < (set.y + 1) * 8
                     /\ flush.op = "show" /\ flush.idx = k - 1
                     /\ wait.op = "sleep" /\ wait.idx = k - 1
                     /\ wait.secs[1] * 120 = WordCount(lines[k]) * wait.secs[2]
            /\ pc = "verbose" =>
                 /\ Len(h) = 3 * (idx + 1)
                 /\ LET set == h[Len(h) - 2]
                    IN  <<set.x, set.y, set.r, set.g, set.b>> = xy \o rgb
                 /\ h[Len(h)].secs = speed

C5_Witness ==
    /\ unicorns
    /\ pc = "done"
    /\ Len(Ops(events, HardwareOps)) = 6
    /\ events[Len(events)].op = "sleep"

\* C7: with the hardware, the brightness is set at most once, it is the first
\* call of the run and it is made once the run is past its start, and nothing
\* is printed by the text sink; without the hardware there is no call to the
\* hardware and no sleep.
C7_ExclusiveSinks ==
    /\ unicorns =>
         /\ Ops(events, TextOps) = <<>>
         /\ Len(Ops(events, {"brightness"})) <= 1
         /\ (pc # "idle" /\ failure # "hardware") =>
              (Len(Ops(events, {"brightness"})) = 1 /\ events[1].op = "brightness")
         /\ Ops(events, HardwareOps) # <<>> => events[1].op = "brightness"
    /\ ~unicorns => Ops(events, HardwareOps \cup {"brightness"}) = <<>>

C7_Witness ==
    /\ unicorns
    /\ pc = "done"
    /\ events[1].op = "brightness"
    /\ Len(Ops(events, {"set_pixel"})) = 2

\* the steps of the state machine, and the steps into failure
Flow ==
    { <<"idle", "loading">>, <<"loading", "extract">>, <<"extract", "loop">>,
      <<"loop", "analyzing">>, <<"analyzing", "mapping">>,
      <<"mapping", "displaying">>, <<"displaying", "verbose">>,
      <<"verbose", "loop">>, <<"loop", "done">>,
      <<"idle", "failed">>, <<"loading", "failed">>, <<"analyzing", "failed">> }

\* C8: a run follows idle, loading, then analyzing, mapping, displaying per
\* speech, then done; it ends, and without a failure it ends in done; when it
\* is done every line has been displayed exactly once, in the order of the
\* lines, and a document without lines is done without any call for a speech.
C8_RunToCompletion ==
    /\ [][pc' # pc => <<pc, pc'>> \in Flow]_vars
    /\ <>(pc \in {"done", "failed"})
    /\ <>(pc = "done" \/ failure # "none")
    /\ [](pc = "done" =>
            /\ failure = "none"
            /\ Len(Shown) = Len(lines)
            /\ \A k \in 1..Len(Shown) : Shown[k].idx = k - 1
            /\ Len(Ops(events, LibraryOps)) = Len(lines)
            /\ lines = <<>> => Ops(events, LibraryOps \cup HardwareOps
                                           \cup TextOps \cup {"verbose"}) = <<>>)

C8_Witness ==
    /\ pc = "done"
    /\ Len(lines) = 2
    /\ Len(Shown) = 2
    /\ Shown[2].idx = 1

\* C9: with a value of nlp other than nltk and pattern no speech is scored by
\* either library and none is displayed.
C9_OnlyTwoBackends ==
    nlp \notin {"nltk", "pattern"} =>
        Ops(events, LibraryOps \cup {"set_pixel", "print"}) = <<>>

\* C10: when loading (or the hardware) fails no speech is scored or displayed;
\* when the scoring of the speech at index k fails, no display and no verbose
\* line exists for an index >= k; after a failure the run makes no further
\* step, and no step ever takes back an event already made.
C10_FailureIsFatal ==
    /\ [](failure \in {"load", "hardware"} =>
            Ops(events, LibraryOps \cup HardwareOps \cup TextOps
                        \cup {"verbose"}) = <<>>)
    /\ [](failure = "analysis" =>
            \A k \in 1..Len(events) :
                events[k].op \in HardwareOps \cup TextOps \cup {"verbose"}
                    => events[k].idx < idx)
    /\ [][failure # "none" => UNCHANGED <<pc, idx, events, failure>>]_vars
    /\ [][/\ Len(events') >= Len(events)
          /\ SubSeq(events', 1, Len(events)) = events]_vars

C10_Witness ==
    /\ failure = "analysis"
    /\ pc = "failed"
    /\ idx = 1
    /\ Len(Shown) = 1
    /\ Shown[1].idx = 0

-----------------------------------------------------------------------------
(* Properties of the functions (checked under SpecFn) *)

\* C1: for a polarity n/d of [-1, 1] the intensity is the least integer i with
\* i >= |n/d| * 255; the colour is (0,0,0) when the polarity is 0,
\* (255 - i, 0, 255) when it is positive and (255, 0, 255 - i) when it is
\* negative; every channel is in 0..255; 1/2 gives (127,0,255) and -1/5
\* gives (255,0,204).
C1_Colour ==
    call.fn = "_get_colour" =>
        LET n == call.polarity[1]
            d == call.polarity[2]
            i == ret.intensity
            c == ret.rgb
        IN  /\ i * d >= Abs(n) * 255
            /\ (i - 1) * d < Abs(n) * 255
            /\ (n = 0 => c = <<0, 0, 0>>)
            /\ (n > 0 => c = <<255 - i, 0, 255>>)
            /\ (n < 0 => c = <<255, 0, 255 - i>>)
            /\ \A k \in 1..3 : c[k] \in 0..255
            /\ (call.polarity = <<1, 2>> => c = <<127, 0, 255>>)
            /\ (call.polarity = <<-1, 5>> => c = <<255, 0, 204>>)

C1_Witness ==
    /\ call.fn = "_get_colour"
    /\ call.polarity = <<-1, 5>>
    /\ ret.rgb = <<255, 0, 204>>

\* C2: the position computed for index idx is x = (idx mod 64) mod 8 and
\* y = floor((idx mod 64) / 8), both in 0..7, and it is the position computed
\* for idx + 64; 63 gives (7,7) and 64 gives (0,0).
C2_GridPosition ==
    call.fn = "_process_text" =>
        LET i == call.idx
        IN  /\ ret.xy[1] = (i % 64) % 8
            /\ ret.xy[2] * 8 <= i % 64
            /\ i % 64 < (ret.xy[2] + 1) * 8
            /\ ret.xy[1] \in 0..7
            /\ ret.xy[2] \in 0..7
            /\ ret.xy = _process_text(i + 64, call.text, call.polarity,
                                      call.unicorns, call.verbose).xy
            /\ (i = 63 => ret.xy = <<7, 7>>)
            /\ (i = 64 => ret.xy = <<0, 0>>)

C2_Witness ==
    /\ call.fn = "_process_text"
    /\ call.idx = 64
    /\ ret.xy = <<0, 0>>

\* C3: the delay of a text is its number of words divided by 120; it is never
\* negative, and it is 0 exactly when the text has no word; three words give
\* 0.025 s.
C3_Speed ==
    call.fn = "_get_speed" =>
        LET w == WordCount(call.text)
        IN  /\ ret[2] > 0
            /\ ret[1] * 120 = w * ret[2]
            /\ ret[1] >= 0
            /\ (ret[1] = 0 <=> w = 0)
            /\ (w = 3 => ret[1] * 1000 = 25 * ret[2])

C3_Witness ==
    /\ call.fn = "_get_speed"
    /\ call.text = <<"a", " ", "a", "\n", "a">>
    /\ ret[1] * 1000 = 25 * ret[2]

\* the calls of the display sink among some events
SinkEvents(es) == SelectSeq(es, LAMBDA e : e.op # "verbose")

====
